---- MODULE Spec2Model ----
(***************************************************************************)
(* Model of state_estimator.py: the StateEstimator node that launches the  *)
(* estimator subprocesses, subscribes to the primary estimator's topic     *)
(* (and to the EMA topic when the primary is the 2D UKF), republishes the  *)
(* fused State on /pidrone/state, and terminates the subprocesses in the   *)
(* finally clause of main().                                               *)
(***************************************************************************)
EXTENDS Integers, Sequences, FiniteSets, TLC

(***************************************************************************)
(* Bounds of the model.                                                    *)
(***************************************************************************)
\* longest --others list explored
MaxOthers == 2
\* number of distinct messages an estimator can publish on a topic
NumMsgs == 2
\* number of primary-topic messages handled before the node stops taking more
MaxPub == 2

(***************************************************************************)
(* Command line (main, lines 175-206).                                     *)
(***************************************************************************)
arg_choices == {"ema", "ukf2d", "ukf7d", "simulator"}

sdim_choices == {1, 2, 3}

\* argparse: --others has nargs='+', so it is None or a non-empty list; the
\* empty sequence is therefore free to stand for None.
None == <<>>

RECURSIVE SeqsUpTo(_, _)
SeqsUpTo(S, n) ==
    IF n = 0 THEN {<<>>}
    ELSE LET shorter == SeqsUpTo(S, n - 1)
         IN  shorter \cup {Append(s, e) : s \in shorter, e \in S}

OthersChoices == SeqsUpTo(arg_choices, MaxOthers)

Range(s) == {s[i] : i \in 1..Len(s)}

(***************************************************************************)
(* State messages.  A State carries the pose (position x, y, z and         *)
(* orientation), the twist (linear x, y, z and angular), the two           *)
(* covariance blocks and the header stamp.  State() has every numeric      *)
(* field at 0.                                                             *)
(***************************************************************************)
State ==
    [stamp |-> 0,
     x |-> 0, y |-> 0, z |-> 0, orientation |-> 0,
     vel_x |-> 0, vel_y |-> 0, vel_z |-> 0, vel_angular |-> 0,
     pose_covariance |-> 0, twist_covariance |-> 0]

(***************************************************************************)
(* Estimator registry (__init__, lines 36-56).                             *)
(***************************************************************************)
process_cmds_dict(sdim) ==
    [e \in arg_choices |->
        CASE e = "ema" -> "python StateEstimators/state_estimator_ema.py"
          [] e = "ukf2d" ->
                "python StateEstimators/student_state_estimator_ukf_2d.py"
          [] e = "ukf7d" ->
                "python StateEstimators/student_state_estimator_ukf_7d.py"
          [] e = "simulator" ->
                "rosrun pidrone_pkg drone_simulator.py --dim "
                    \o ToString(sdim)]

can_use_throttled_ir == {"ukf2d", "ukf7d"}

can_use_throttled_imu == {"ukf2d", "ukf7d"}

can_use_throttled_optical_flow == {"ukf7d"}

can_use_throttled_camera_pose == {"ukf7d"}

ukf_topics ==
    [d \in {2, 7} |->
        IF d = 2 THEN "/pidrone/state/ukf_2d" ELSE "/pidrone/state/ukf_7d"]

ema_topic == "/pidrone/state/ema"

simulator_topic == "/pidrone/state/simulator"

Topics == {ema_topic, ukf_topics[2], ukf_topics[7], simulator_topic}

\* The k-th message an estimator may publish on topic T: every field differs
\* from every other field, from the same field of any other message on any
\* topic, and from 0.
TopicNumber(T) ==
    CASE T = ema_topic -> 1
      [] T = ukf_topics[2] -> 2
      [] T = ukf_topics[7] -> 3
      [] T = simulator_topic -> 4

Msg(T, k) ==
    LET base == 1000 * TopicNumber(T) + 10 * k
    IN  [stamp |-> 0,
         x |-> base + 1, y |-> base + 2, z |-> base + 3,
         orientation |-> base + 4,
         vel_x |-> base + 5, vel_y |-> base + 6, vel_z |-> base + 7,
         vel_angular |-> base + 8,
         pose_covariance |-> base + 9, twist_covariance |-> base + 10]

MsgsOn(T) == {Msg(T, k) : k \in 1..NumMsgs}

\* append_throttle_flags (lines 103-112): the flags depend on the estimator
\* alone; the *_throttled constructor arguments are never consulted.
append_throttle_flags(cmd, estimator) ==
    LET c1 == IF estimator \in can_use_throttled_ir
              THEN cmd \o " --ir_throttled" ELSE cmd
        c2 == IF estimator \in can_use_throttled_imu
              THEN c1 \o " --imu_throttled" ELSE c1
        c3 == IF estimator \in can_use_throttled_optical_flow
              THEN c2 \o " --optical_flow_throttled" ELSE c2
        c4 == IF estimator \in can_use_throttled_camera_pose
              THEN c3 \o " --camera_pose_throttled" ELSE c3
    IN  c4

\* The loop over other_estimators (lines 90-96).  The membership test compares
\* the estimator id with the command strings collected so far.
RECURSIVE add_other_estimators(_, _, _)
add_other_estimators(process_cmds, others, sdim) ==
    IF others = <<>> THEN process_cmds
    ELSE LET other_estimator == Head(others)
             other_cmd == append_throttle_flags(
                              process_cmds_dict(sdim)[other_estimator],
                              other_estimator)
         IN  add_other_estimators(
                 IF other_estimator \notin Range(process_cmds)
                 THEN Append(process_cmds, other_cmd)
                 ELSE process_cmds,
                 Tail(others), sdim)

\* Mutant of build_process_cmds: the EMA command is added after the others
\* instead of right after the primary, and only if the loop did not add it.
build_process_cmds_ema_last(primary, others, sdim) ==
    LET cmd == append_throttle_flags(process_cmds_dict(sdim)[primary], primary)
        ema == process_cmds_dict(sdim)["ema"]
        cmds == IF others # None
                THEN add_other_estimators(<<cmd>>, others, sdim)
                ELSE <<cmd>>
    IN  IF primary = "ukf2d" /\ ema \notin Range(cmds)
        THEN Append(cmds, ema)
        ELSE cmds

\* The command list built by start_estimator_subprocess_cmds (lines 71-96).
build_process_cmds(primary, others, sdim) ==
    LET cmd == append_throttle_flags(process_cmds_dict(sdim)[primary], primary)
        first == IF primary = "ukf2d"
                 THEN <<cmd, process_cmds_dict(sdim)["ema"]>>
                 ELSE <<cmd>>
    IN  IF others # None
        THEN add_other_estimators(first, others, sdim)
        ELSE first

(***************************************************************************)
(* State of the program.                                                   *)
(***************************************************************************)
VARIABLES
    args,            \* the parsed command line (main, line 206)
    pc,              \* where main() is
    exc,             \* the exception in flight, "none" when there is none
    se_bound,        \* whether main's local `se` has been assigned
    process_cmds,    \* local list of start_estimator_subprocess_cmds
    p_idx,           \* position of the launch loop in process_cmds
    processes,       \* self.processes: <<command, Popen handle>> pairs
    terminate_calls, \* per Popen handle, the number of terminate() calls made
    t_idx,           \* position of the finally loop in se.processes
    subscribers,     \* registered <<topic, callback>> pairs
    state_msg,       \* self.state_msg
    ema_state_msg,   \* self.ema_state_msg: <<>> while the attribute is unset
    published,       \* records handed to state_pub.publish, in order
    handled,         \* messages passed to state_callback, in order
    last_ema,        \* <<>>, or <<the last message ema_helper_callback got>>
    callback_error,  \* whether a callback has raised
    launch_failed,   \* position in process_cmds of the Popen that raised, or 0
    state_cb,        \* frame of a state_callback in progress on its thread
    ema_cb           \* frame of an ema_helper_callback in progress

vars == <<args, pc, exc, se_bound, process_cmds, p_idx, processes,
          terminate_calls, t_idx, subscribers, state_msg, ema_state_msg,
          published, handled, last_ema, callback_error, launch_failed,
          state_cb, ema_cb>>

\* The frame of a callback thread that is not inside its callback.
idle == [line |-> 0]

primary_estimator == args.primary

other_estimators == args.others

\* Mutant of resolve_subscriptions: the EMA helper is wired whenever an EMA
\* process runs alongside the primary, not only for ukf2d.
resolve_subscriptions_by_running(primary) ==
    LET own == CASE primary = "ukf2d" -> {<<ukf_topics[2], "state_callback">>}
                 [] primary = "ukf7d" -> {<<ukf_topics[7], "state_callback">>}
                 [] primary = "ema" -> {<<ema_topic, "state_callback">>}
                 [] primary = "simulator" ->
                        {<<simulator_topic, "state_callback">>}
                 [] OTHER -> {}
    IN  IF primary = "ukf2d"
           \/ (primary # "ema" /\ "ema" \in Range(other_estimators))
        THEN own \cup {<<ema_topic, "ema_helper_callback">>}
        ELSE own

\* The subscriptions registered by start_estimator_subprocess_cmds
\* (lines 74-87), as <<topic, callback>> pairs.
resolve_subscriptions(primary) ==
    CASE primary = "ukf2d" ->
            {<<ema_topic, "ema_helper_callback">>,
             <<ukf_topics[2], "state_callback">>}
      [] primary = "ukf7d" -> {<<ukf_topics[7], "state_callback">>}
      [] primary = "ema" -> {<<ema_topic, "state_callback">>}
      [] primary = "simulator" -> {<<simulator_topic, "state_callback">>}
      [] OTHER -> {}

ArgsSpace ==
    [primary : arg_choices, others : OthersChoices,
     ir_throttled : BOOLEAN, imu_throttled : BOOLEAN,
     optical_flow_throttled : BOOLEAN, camera_pose_throttled : BOOLEAN,
     sdim : sdim_choices]

\* Nothing constructed yet: no StateEstimator, no process, no callback.
InitObject ==
    /\ exc = "none"
    /\ se_bound = FALSE
    /\ process_cmds = <<>>
    /\ p_idx = 1
    /\ processes = <<>>
    /\ terminate_calls = <<>>
    /\ t_idx = 1
    /\ subscribers = {}
    /\ state_msg = State
    /\ ema_state_msg = <<>>
    /\ published = <<>>
    /\ handled = <<>>
    /\ last_ema = <<>>
    /\ callback_error = FALSE
    /\ launch_failed = 0
    /\ state_cb = idle
    /\ ema_cb = idle

InitRest ==
    /\ pc = "main"
    /\ InitObject

\* main() after parse_args, with the throttle flags and --sdim left at their
\* argparse defaults (store_true: False; sdim: 1).
Init ==
    /\ args \in {a \in ArgsSpace :
                    /\ ~a.ir_throttled /\ ~a.imu_throttled
                    /\ ~a.optical_flow_throttled /\ ~a.camera_pose_throttled
                    /\ a.sdim = 1}
    /\ InitRest

\* main() after parse_args, for every combination of the throttle flags and
\* every --sdim, without --others.
InitArgs ==
    /\ args \in {a \in ArgsSpace : a.others = None}
    /\ InitRest

\* An estimator id outside arg_choices.
unknown_id == "unknown"

id_choices == arg_choices \cup {unknown_id}

\* Whether every id of the command line is a key of process_cmds_dict.
ids_known ==
    /\ primary_estimator \in arg_choices
    /\ Range(other_estimators) \subseteq arg_choices

\* Entry with ids that may lie outside the enumeration: either the script is
\* about to run parse_args on them, or StateEstimator is constructed with
\* them directly, without argparse in front of it.  Flags and sdim are at
\* their defaults.
InitIds ==
    /\ args \in [primary : id_choices,
                 others : SeqsUpTo(id_choices, MaxOthers),
                 ir_throttled : {FALSE}, imu_throttled : {FALSE},
                 optical_flow_throttled : {FALSE},
                 camera_pose_throttled : {FALSE},
                 sdim : {1}]
    /\ pc \in {"parse_args", "main"}
    /\ InitObject

\* parser.parse_args() (line 206) returns: every id is one of the choices.
parse_args_returns ==
    /\ pc = "parse_args"
    /\ ids_known
    /\ pc' = "main"
    /\ UNCHANGED <<args, exc, se_bound, process_cmds, p_idx, processes,
                   terminate_calls, t_idx, subscribers, state_msg,
                   ema_state_msg, published, handled, last_ema,
                   callback_error, launch_failed, state_cb, ema_cb>>

\* parser.parse_args() (line 206) rejects an id that is not among the choices
\* (lines 175-186): argparse prints the usage and raises SystemExit, outside
\* the try block of main.
parse_args_exits ==
    /\ pc = "parse_args"
    /\ ~ids_known
    /\ exc' = "SystemExit"
    /\ pc' = "done"
    /\ UNCHANGED <<args, se_bound, process_cmds, p_idx, processes,
                   terminate_calls, t_idx, subscribers, state_msg,
                   ema_state_msg, published, handled, last_ema,
                   callback_error, launch_failed, state_cb, ema_cb>>

(***************************************************************************)
(* Setup: StateEstimator.__init__ (lines 29-62).                           *)
(***************************************************************************)
\* Mutant of allocate_ema_state_msg: the State() of line 79 is forgotten.
ema_state_msg_not_allocated(primary) == <<>>

\* self.ema_state_msg after lines 74-79.
allocate_ema_state_msg(primary) ==
    IF primary = "ukf2d" THEN <<State>> ELSE <<>>

\* __init__ up to the launch loop: lines 31-59 and 71-96.
start_estimator_subprocess_cmds ==
    /\ pc = "main"
    /\ ids_known
    /\ state_msg' = State
    /\ processes' = <<>>
    /\ process_cmds' = build_process_cmds(primary_estimator, other_estimators,
                                          args.sdim)
    /\ p_idx' = 1
    /\ ema_state_msg' = allocate_ema_state_msg(primary_estimator)
    /\ subscribers' = resolve_subscriptions(primary_estimator)
    /\ pc' = "launch"
    /\ UNCHANGED <<args, exc, se_bound, terminate_calls, t_idx, published,
                   handled, last_ema, callback_error, launch_failed, state_cb,
                   ema_cb>>

\* Mutant of lookup_raises: every command is launched as soon as it is
\* composed, so the primary is already running when the lookup of a later id
\* fails.
lookup_raises_after_launching ==
    /\ pc = "main"
    /\ ~ids_known
    /\ state_msg' = State
    /\ IF primary_estimator \in arg_choices
       THEN /\ ema_state_msg' = allocate_ema_state_msg(primary_estimator)
            /\ subscribers' = resolve_subscriptions(primary_estimator)
            /\ processes' =
                   <<<<append_throttle_flags(
                          process_cmds_dict(args.sdim)[primary_estimator],
                          primary_estimator), 1>>>>
            /\ terminate_calls' = <<0>>
       ELSE UNCHANGED <<ema_state_msg, subscribers, processes,
                        terminate_calls>>
    /\ exc' = "KeyError"
    /\ pc' = "except"
    /\ UNCHANGED <<args, se_bound, process_cmds, p_idx, t_idx, published,
                   handled, last_ema, callback_error, launch_failed, state_cb,
                   ema_cb>>

\* __init__ with an id that is no key of process_cmds_dict: the lookup of
\* line 71 (primary) or of line 94 (one of the others) raises KeyError.  In
\* the second case lines 73-87 have already run; in both the launch loop of
\* lines 98-101 is never reached.
lookup_raises ==
    /\ pc = "main"
    /\ ~ids_known
    /\ state_msg' = State
    /\ processes' = <<>>
    /\ IF primary_estimator \in arg_choices
       THEN /\ ema_state_msg' = allocate_ema_state_msg(primary_estimator)
            /\ subscribers' = resolve_subscriptions(primary_estimator)
       ELSE UNCHANGED <<ema_state_msg, subscribers>>
    /\ exc' = "KeyError"
    /\ pc' = "except"
    /\ UNCHANGED <<args, se_bound, process_cmds, p_idx, terminate_calls,
                   t_idx, published, handled, last_ema, callback_error,
                   launch_failed, state_cb, ema_cb>>

\* One iteration of the launch loop (lines 98-101) in which Popen returns.
Popen_returns ==
    /\ pc = "launch"
    /\ p_idx <= Len(process_cmds)
    /\ LET p == process_cmds[p_idx]
           handle == Len(processes) + 1
       IN  /\ processes' = Append(processes, <<p, handle>>)
           /\ terminate_calls' = Append(terminate_calls, 0)
    /\ p_idx' = p_idx + 1
    /\ UNCHANGED <<args, pc, exc, se_bound, process_cmds, t_idx, subscribers,
                   state_msg, ema_state_msg, published, handled, last_ema,
                   callback_error, launch_failed, state_cb, ema_cb>>

\* One iteration of the launch loop in which Popen raises (fork failure):
\* nothing catches it inside __init__, so the loop and the constructor end.
Popen_raises ==
    /\ pc = "launch"
    /\ p_idx <= Len(process_cmds)
    /\ launch_failed' = p_idx
    /\ exc' = "OSError"
    /\ pc' = "except"
    /\ UNCHANGED <<args, se_bound, process_cmds, p_idx, processes,
                   terminate_calls, t_idx, subscribers, state_msg,
                   ema_state_msg, published, handled, last_ema, callback_error,
                   state_cb, ema_cb>>

\* The launch loop is over; initialize_ros (lines 64-68) calls init_node and
\* enters rospy.spin().
initialize_ros ==
    /\ pc = "launch"
    /\ p_idx > Len(process_cmds)
    /\ pc' = "spin"
    /\ UNCHANGED <<args, exc, se_bound, process_cmds, p_idx, processes,
                   terminate_calls, t_idx, subscribers, state_msg,
                   ema_state_msg, published, handled, last_ema, callback_error,
                   launch_failed, state_cb, ema_cb>>

\* rospy.init_node raises (e.g. ROSInitException) after the launch loop.
init_node_raises ==
    /\ pc = "launch"
    /\ p_idx > Len(process_cmds)
    /\ exc' = "ROSInitException"
    /\ pc' = "except"
    /\ UNCHANGED <<args, se_bound, process_cmds, p_idx, processes,
                   terminate_calls, t_idx, subscribers, state_msg,
                   ema_state_msg, published, handled, last_ema, callback_error,
                   launch_failed, state_cb, ema_cb>>

\* Ctrl-C while the constructor is still setting up (before rospy has taken
\* over signal handling): KeyboardInterrupt is not an Exception, so the
\* except clause of main is skipped and the finally clause runs.
KeyboardInterrupt ==
    /\ pc \in {"main", "launch"}
    /\ exc' = "KeyboardInterrupt"
    /\ pc' = "finally"
    /\ UNCHANGED <<args, se_bound, process_cmds, p_idx, processes,
                   terminate_calls, t_idx, subscribers, state_msg,
                   ema_state_msg, published, handled, last_ema, callback_error,
                   launch_failed, state_cb, ema_cb>>

(***************************************************************************)
(* Message handlers, run by rospy while the node spins.                    *)
(***************************************************************************)
\* rospy.Time.now(): logical time, the ordinal of the fusion being made.
now == Len(published) + 1

\* Mutant of fuse: under ukf2d the covariance blocks are taken from the EMA
\* cache, like the fields they describe.
fuse_covariance_from_ema(out, msg, primary, ema) ==
    LET src == IF primary = "ukf2d" THEN ema[1] ELSE msg
    IN  [out EXCEPT
            !.stamp = now,
            !.x = src.x, !.y = src.y, !.z = msg.z,
            !.orientation = msg.orientation,
            !.vel_x = src.vel_x, !.vel_y = src.vel_y, !.vel_z = msg.vel_z,
            !.vel_angular = msg.vel_angular,
            !.pose_covariance = src.pose_covariance,
            !.twist_covariance = src.twist_covariance]

\* Mutant of fuse: the else branch reads linear.x for vel_y.
fuse_copy_slip(out, msg, primary, ema) ==
    LET x == IF primary = "ukf2d" THEN ema[1].x ELSE msg.x
        y == IF primary = "ukf2d" THEN ema[1].y ELSE msg.y
        vel_x == IF primary = "ukf2d" THEN ema[1].vel_x ELSE msg.vel_x
        vel_y == IF primary = "ukf2d" THEN ema[1].vel_y ELSE msg.vel_x
    IN  [out EXCEPT
            !.stamp = now,
            !.x = x, !.y = y, !.z = msg.z,
            !.orientation = msg.orientation,
            !.vel_x = vel_x, !.vel_y = vel_y, !.vel_z = msg.vel_z,
            !.vel_angular = msg.vel_angular,
            !.pose_covariance = msg.pose_covariance,
            !.twist_covariance = msg.twist_covariance]

\* The record state_callback assembles (lines 121-151); ema is
\* self.ema_state_msg, read only when the primary is the 2D UKF.
fuse(out, msg, primary, ema) ==
    LET x == IF primary = "ukf2d" THEN ema[1].x ELSE msg.x
        y == IF primary = "ukf2d" THEN ema[1].y ELSE msg.y
        vel_x == IF primary = "ukf2d" THEN ema[1].vel_x ELSE msg.vel_x
        vel_y == IF primary = "ukf2d" THEN ema[1].vel_y ELSE msg.vel_y
        z == msg.z
        vel_z == msg.vel_z
        orientation == msg.orientation
        vel_angular == msg.vel_angular
    IN  [out EXCEPT
            !.stamp = now,
            !.x = x, !.y = y, !.z = z,
            !.orientation = orientation,
            !.vel_x = vel_x, !.vel_y = vel_y, !.vel_z = vel_z,
            !.vel_angular = vel_angular,
            !.pose_covariance = msg.pose_covariance,
            !.twist_covariance = msg.twist_covariance]

\* Mutant of publish: a record equal to the last one published, stamp aside,
\* is not published again.
publish_if_changed(channel, record) ==
    IF /\ channel # <<>>
       /\ [record EXCEPT !.stamp = 0]
             = [channel[Len(channel)] EXCEPT !.stamp = 0]
    THEN channel
    ELSE Append(channel, record)

\* self.state_pub.publish(self.state_msg) (line 153): the record as it is at
\* the call goes out on /pidrone/state.
publish(channel, record) == Append(channel, record)

\* state_callback (lines 114-153) on a message of a topic it is subscribed to.
\* Reading self.ema_state_msg while the attribute is unset raises
\* AttributeError after line 121 has stamped the record; rospy logs the
\* exception of a callback and goes on, and nothing is published.
state_callback ==
    /\ pc = "spin"
    /\ Len(handled) < MaxPub
    /\ \E T \in Topics : \E msg \in MsgsOn(T) :
        /\ <<T, "state_callback">> \in subscribers
        /\ handled' = Append(handled, msg)
        /\ IF primary_estimator = "ukf2d" /\ ema_state_msg = <<>>
           THEN /\ state_msg' = [state_msg EXCEPT !.stamp = now]
                /\ callback_error' = TRUE
                /\ published' = published
           ELSE /\ state_msg' = fuse(state_msg, msg, primary_estimator,
                                     ema_state_msg)
                /\ callback_error' = callback_error
                /\ published' = publish(published, state_msg')
    /\ UNCHANGED <<args, pc, exc, se_bound, process_cmds, p_idx, processes,
                   terminate_calls, t_idx, subscribers, ema_state_msg,
                   last_ema, launch_failed, state_cb, ema_cb>>

\* Mutant of ema_update: the whole message is kept as the cache.
ema_update_whole_message(cache, msg) == msg

\* Mutant of ema_update: the last assignment stores linear.x again, so vel_y
\* of the cache is never the EMA's.
ema_update_copy_slip(cache, msg) ==
    [cache EXCEPT !.x = msg.x, !.y = msg.y,
                  !.vel_x = msg.vel_x, !.vel_y = msg.vel_x]

\* The fields ema_helper_callback copies (lines 160-163).
ema_update(cache, msg) ==
    [cache EXCEPT !.x = msg.x, !.y = msg.y,
                  !.vel_x = msg.vel_x, !.vel_y = msg.vel_y]

\* ema_helper_callback (lines 155-163) on a message of the EMA topic; with the
\* attribute unset, line 160 raises AttributeError.
ema_helper_callback ==
    /\ pc = "spin"
    /\ \E T \in Topics : \E msg \in MsgsOn(T) :
        /\ <<T, "ema_helper_callback">> \in subscribers
        /\ last_ema' = <<msg>>
        /\ IF ema_state_msg = <<>>
           THEN /\ ema_state_msg' = ema_state_msg
                /\ callback_error' = TRUE
           ELSE /\ ema_state_msg' = <<ema_update(ema_state_msg[1], msg)>>
                /\ callback_error' = callback_error
    /\ UNCHANGED <<args, pc, exc, se_bound, process_cmds, p_idx, processes,
                   terminate_calls, t_idx, subscribers, state_msg, published,
                   handled, launch_failed, state_cb, ema_cb>>

(***************************************************************************)
(* The same handlers as rospy runs them: each subscription has its own     *)
(* receive thread, so state_callback and ema_helper_callback interleave    *)
(* statement by statement.  A frame records the line its thread is about   *)
(* to execute and the thread's locals.                                     *)
(***************************************************************************)
\* Line 121 of state_callback, on a message of a subscribed topic.  Lines
\* 130-133 read only the message, so with a primary other than ukf2d the
\* thread goes on to the assignments of lines 135-153.
state_callback_begin ==
    /\ pc = "spin"
    /\ state_cb = idle
    /\ Len(handled) < MaxPub
    /\ \E T \in Topics : \E msg \in MsgsOn(T) :
        /\ <<T, "state_callback">> \in subscribers
        /\ handled' = Append(handled, msg)
        /\ state_cb' = [line |-> IF primary_estimator = "ukf2d"
                                 THEN 124 ELSE 135,
                        msg |-> msg,
                        x |-> msg.x, y |-> msg.y,
                        vel_x |-> msg.vel_x, vel_y |-> msg.vel_y]
    /\ state_msg' = [state_msg EXCEPT !.stamp = now]
    /\ UNCHANGED <<args, pc, exc, se_bound, process_cmds, p_idx, processes,
                   terminate_calls, t_idx, subscribers, ema_state_msg,
                   published, last_ema, callback_error, launch_failed,
                   ema_cb>>

\* The local that line n of state_callback assigns, and the frame after it
\* has read that field of self.ema_state_msg.
read_ema_field(frame, ema) ==
    CASE frame.line = 124 -> [frame EXCEPT !.x = ema.x, !.line = 125]
      [] frame.line = 125 -> [frame EXCEPT !.y = ema.y, !.line = 126]
      [] frame.line = 126 -> [frame EXCEPT !.vel_x = ema.vel_x, !.line = 127]
      [] frame.line = 127 -> [frame EXCEPT !.vel_y = ema.vel_y, !.line = 135]

\* One of lines 124-127 of state_callback: a single read of the cache.
state_callback_read ==
    /\ pc = "spin"
    /\ state_cb.line \in 124..127
    /\ IF ema_state_msg = <<>>
       THEN /\ state_cb' = idle
            /\ callback_error' = TRUE
       ELSE /\ state_cb' = read_ema_field(state_cb, ema_state_msg[1])
            /\ callback_error' = callback_error
    /\ UNCHANGED <<args, pc, exc, se_bound, process_cmds, p_idx, processes,
                   terminate_calls, t_idx, subscribers, state_msg,
                   ema_state_msg, published, handled, last_ema,
                   launch_failed, ema_cb>>

\* Lines 135-153 of state_callback: the locals go into self.state_msg, which
\* only this thread touches, and the record is published.
state_callback_publish ==
    /\ pc = "spin"
    /\ state_cb.line = 135
    /\ state_msg' = fuse(state_msg, state_cb.msg, primary_estimator,
                         <<state_cb>>)
    /\ published' = publish(published, state_msg')
    /\ state_cb' = idle
    /\ UNCHANGED <<args, pc, exc, se_bound, process_cmds, p_idx, processes,
                   terminate_calls, t_idx, subscribers, ema_state_msg,
                   handled, last_ema, callback_error, launch_failed, ema_cb>>

\* The assignment on line n of ema_helper_callback.
write_ema_field(cache, msg, line) ==
    CASE line = 160 -> [cache EXCEPT !.x = msg.x]
      [] line = 161 -> [cache EXCEPT !.y = msg.y]
      [] line = 162 -> [cache EXCEPT !.vel_x = msg.vel_x]
      [] line = 163 -> [cache EXCEPT !.vel_y = msg.vel_y]

\* Line 160 of ema_helper_callback, on a message of the EMA topic.
ema_helper_callback_begin ==
    /\ pc = "spin"
    /\ ema_cb = idle
    /\ \E T \in Topics : \E msg \in MsgsOn(T) :
        /\ <<T, "ema_helper_callback">> \in subscribers
        /\ last_ema' = <<msg>>
        /\ IF ema_state_msg = <<>>
           THEN /\ ema_state_msg' = ema_state_msg
                /\ ema_cb' = idle
                /\ callback_error' = TRUE
           ELSE /\ ema_state_msg' =
                       <<write_ema_field(ema_state_msg[1], msg, 160)>>
                /\ ema_cb' = [line |-> 161, msg |-> msg]
                /\ callback_error' = callback_error
    /\ UNCHANGED <<args, pc, exc, se_bound, process_cmds, p_idx, processes,
                   terminate_calls, t_idx, subscribers, state_msg, published,
                   handled, launch_failed, state_cb>>

\* One of lines 161-163 of ema_helper_callback.
ema_helper_callback_next ==
    /\ pc = "spin"
    /\ ema_cb.line \in 161..163
    /\ ema_state_msg' =
           <<write_ema_field(ema_state_msg[1], ema_cb.msg, ema_cb.line)>>
    /\ ema_cb' = IF ema_cb.line = 163
                 THEN idle
                 ELSE [ema_cb EXCEPT !.line = @ + 1]
    /\ UNCHANGED <<args, pc, exc, se_bound, process_cmds, p_idx, processes,
                   terminate_calls, t_idx, subscribers, state_msg, published,
                   handled, last_ema, callback_error, launch_failed,
                   state_cb>>

(***************************************************************************)
(* Exit paths of main (lines 208-226).                                     *)
(***************************************************************************)
\* rospy.spin() returns (node shutdown, Ctrl-C handled by rospy); __init__
\* returns and main binds `se`; the try block ends normally.
spin_returns ==
    /\ pc = "spin"
    /\ se_bound' = TRUE
    /\ pc' = "finally"
    /\ UNCHANGED <<args, exc, process_cmds, p_idx, processes, terminate_calls,
                   t_idx, subscribers, state_msg, ema_state_msg, published,
                   handled, last_ema, callback_error, launch_failed, state_cb,
                   ema_cb>>

\* except Exception as e: print e (lines 216-217).
except_clause ==
    /\ pc = "except"
    /\ exc' = "none"
    /\ pc' = "finally"
    /\ UNCHANGED <<args, se_bound, process_cmds, p_idx, processes,
                   terminate_calls, t_idx, subscribers, state_msg,
                   ema_state_msg, published, handled, last_ema, callback_error,
                   launch_failed, state_cb, ema_cb>>

\* The finally clause evaluates se.processes (line 223): with `se` unbound this
\* raises UnboundLocalError and main ends without any terminate() call.
finally_clause ==
    /\ pc = "finally"
    /\ IF se_bound
       THEN /\ pc' = "terminate"
            /\ t_idx' = 1
            /\ exc' = exc
       ELSE /\ pc' = "done"
            /\ t_idx' = t_idx
            /\ exc' = "UnboundLocalError"
    /\ UNCHANGED <<args, se_bound, process_cmds, p_idx, processes,
                   terminate_calls, subscribers, state_msg, ema_state_msg,
                   published, handled, last_ema, callback_error, launch_failed,
                   state_cb, ema_cb>>

\* Mutant of terminate_returns: the loop also runs from a shutdown hook, while
\* the node is still spinning.
terminate_returns_while_spinning ==
    /\ pc \in {"spin", "terminate"}
    /\ t_idx <= Len(processes)
    /\ LET process == processes[t_idx][2]
       IN  terminate_calls' =
               [terminate_calls EXCEPT ![process] = @ + 1]
    /\ t_idx' = t_idx + 1
    /\ UNCHANGED <<args, pc, exc, se_bound, process_cmds, p_idx, processes,
                   subscribers, state_msg, ema_state_msg, published, handled,
                   last_ema, callback_error, launch_failed, state_cb, ema_cb>>

\* One iteration of the finally loop (lines 223-225): terminate() returns.
terminate_returns ==
    /\ pc = "terminate"
    /\ t_idx <= Len(processes)
    /\ LET process == processes[t_idx][2]
       IN  terminate_calls' =
               [terminate_calls EXCEPT ![process] = @ + 1]
    /\ t_idx' = t_idx + 1
    /\ UNCHANGED <<args, pc, exc, se_bound, process_cmds, p_idx, processes,
                   subscribers, state_msg, ema_state_msg, published, handled,
                   last_ema, callback_error, launch_failed, state_cb, ema_cb>>

\* One iteration of the finally loop in which terminate() raises (os.kill
\* fails): nothing catches it, so the loop and main end.
terminate_raises ==
    /\ pc = "terminate"
    /\ t_idx <= Len(processes)
    /\ LET process == processes[t_idx][2]
       IN  terminate_calls' =
               [terminate_calls EXCEPT ![process] = @ + 1]
    /\ exc' = "OSError"
    /\ pc' = "done"
    /\ UNCHANGED <<args, se_bound, process_cmds, p_idx, processes, t_idx,
                   subscribers, state_msg, ema_state_msg, published, handled,
                   last_ema, callback_error, launch_failed, state_cb, ema_cb>>

\* The finally loop is over: print 'Done.' (line 226) and main returns.
finally_done ==
    /\ pc = "terminate"
    /\ t_idx > Len(processes)
    /\ pc' = "done"
    /\ UNCHANGED <<args, exc, se_bound, process_cmds, p_idx, processes,
                   terminate_calls, t_idx, subscribers, state_msg,
                   ema_state_msg, published, handled, last_ema, callback_error,
                   launch_failed, state_cb, ema_cb>>

Next ==
    \/ start_estimator_subprocess_cmds
    \/ Popen_returns
    \/ Popen_raises
    \/ initialize_ros
    \/ init_node_raises
    \/ KeyboardInterrupt
    \/ state_callback
    \/ ema_helper_callback
    \/ spin_returns
    \/ except_clause
    \/ finally_clause
    \/ terminate_returns
    \/ terminate_raises
    \/ finally_done

Spec == Init /\ [][Next]_vars

SpecArgs == InitArgs /\ [][Next]_vars

NextIds ==
    \/ parse_args_returns
    \/ parse_args_exits
    \/ lookup_raises
    \/ Next

SpecIds == InitIds /\ [][NextIds]_vars

\* main() after parse_args with the default flags and without --others, the
\* handlers running on their threads.
InitThreads ==
    /\ args \in {a \in ArgsSpace :
                    /\ ~a.ir_throttled /\ ~a.imu_throttled
                    /\ ~a.optical_flow_throttled /\ ~a.camera_pose_throttled
                    /\ a.sdim = 1
                    /\ a.others = None}
    /\ InitRest

NextThreads ==
    \/ start_estimator_subprocess_cmds
    \/ Popen_returns
    \/ Popen_raises
    \/ initialize_ros
    \/ init_node_raises
    \/ KeyboardInterrupt
    \/ state_callback_begin
    \/ state_callback_read
    \/ state_callback_publish
    \/ ema_helper_callback_begin
    \/ ema_helper_callback_next
    \/ spin_returns
    \/ except_clause
    \/ finally_clause
    \/ terminate_returns
    \/ terminate_raises
    \/ finally_done

SpecThreads == InitThreads /\ [][NextThreads]_vars

(***************************************************************************)
(* Properties.                                                             *)
(***************************************************************************)
\* The number of terminate() calls the i-th tracked process has received.
attempts(i) == terminate_calls[processes[i][2]]

\* The topic the primary estimator publishes on.
primary_topic ==
    CASE primary_estimator = "ema" -> ema_topic
      [] primary_estimator = "ukf2d" -> ukf_topics[2]
      [] primary_estimator = "ukf7d" -> ukf_topics[7]
      [] primary_estimator = "simulator" -> simulator_topic

\* C1: on every exit path of main (normal end of spin, an exception during
\* setup, an interrupt), every process launched with Popen has received a
\* terminate() call by the time main ends.
C1_EveryLaunchedProcessGetsTerminate ==
    pc = "done" => \A i \in 1..Len(processes) : attempts(i) >= 1

\* C2: no estimator is launched more than once: the tracked processes have
\* pairwise different commands, and primary ema with others [ema, ukf7d]
\* launches exactly 2 processes.
C2_NoEstimatorLaunchedTwice ==
    /\ \A i, j \in 1..Len(processes) :
          i # j => processes[i][1] # processes[j][1]
    /\ (/\ primary_estimator = "ema"
        /\ other_estimators = <<"ema", "ukf7d">>
        /\ pc = "spin") => Len(processes) = 2

\* C3: with primary ukf2d, the record a state_callback step publishes has x, y,
\* vel_x, vel_y of the last message ema_helper_callback handled before it, and
\* z, vel_z of the message state_callback was called with.
C3_Ukf2dFusesLatestEma ==
    [][(/\ primary_estimator = "ukf2d"
        /\ Len(handled') > Len(handled)
        /\ last_ema # <<>>)
       => /\ Len(published') = Len(published) + 1
          /\ LET out == published'[Len(published')]
                 msg == handled'[Len(handled')]
                 aux == last_ema[1]
             IN  /\ out.x = aux.x /\ out.y = aux.y
                 /\ out.vel_x = aux.vel_x /\ out.vel_y = aux.vel_y
                 /\ out.z = msg.z /\ out.vel_z = msg.vel_z]_vars

\* C3 witness: two fusions, each after a different EMA message: the first
\* record carries the first EMA message's x, the second the later one's.
C3_Witness ==
    /\ primary_estimator = "ukf2d"
    /\ Len(published) = 2
    /\ last_ema = <<Msg(ema_topic, 2)>>
    /\ published[1].x = Msg(ema_topic, 1).x
    /\ published[2].x = Msg(ema_topic, 2).x
    /\ published[2].vel_y = Msg(ema_topic, 2).vel_y
    /\ published[2].z = handled[2].z

\* C4: with primary ukf2d, as long as no EMA message has been handled, every
\* primary message handled has been published with x = y = vel_x = vel_y = 0,
\* and no callback has raised.
C4_ZeroBeforeFirstEma ==
    (primary_estimator = "ukf2d" /\ last_ema = <<>>)
    => /\ ~callback_error
       /\ Len(published) = Len(handled)
       /\ \A i \in 1..Len(published) :
             /\ published[i].x = 0 /\ published[i].y = 0
             /\ published[i].vel_x = 0 /\ published[i].vel_y = 0

\* C4 witness: a primary message fused and published before any EMA message.
C4_Witness ==
    /\ primary_estimator = "ukf2d"
    /\ last_ema = <<>>
    /\ Len(handled) >= 1
    /\ Len(published) = Len(handled)
    /\ published[1].x = 0
    /\ published[1].z = handled[1].z

\* C5: with a primary other than ukf2d, whatever the others list, every
\* published record has x, y, vel_x, vel_y of the message that triggered it,
\* and that message is one of the primary estimator's topic.
C5_PassthroughForOtherPrimaries ==
    primary_estimator # "ukf2d"
    => \A i \in 1..Len(published) :
          /\ i <= Len(handled)
          /\ handled[i] \in MsgsOn(primary_topic)
          /\ published[i].x = handled[i].x
          /\ published[i].y = handled[i].y
          /\ published[i].vel_x = handled[i].vel_x
          /\ published[i].vel_y = handled[i].vel_y

\* C5 witness: primary ukf7d run alongside the EMA, two records published.
C5_Witness ==
    /\ primary_estimator = "ukf7d"
    /\ other_estimators = <<"ema">>
    /\ Len(published) = 2
    /\ published[2].vel_y = Msg(ukf_topics[7], 1).vel_y
    /\ published[1].x = Msg(ukf_topics[7], 2).x

\* C6: the records published are, one for one and in order, the fusions of the
\* messages state_callback handled: same count, i-th record made from the i-th
\* message at the i-th fusion.
C6_OnePublishPerPrimaryMessage ==
    /\ Len(published) = Len(handled)
    /\ \A i \in 1..Len(published) :
          /\ published[i].z = handled[i].z
          /\ published[i].stamp = i

\* C6 witness: the same message handled twice gives two records.
C6_Witness ==
    /\ Len(handled) = 2
    /\ handled[1] = handled[2]
    /\ Len(published) = 2

\* The command the registry's contract asks for: the base command followed by
\* the flags that are both requested and supported, in canonical order.
requested_and_supported(estimator) ==
    LET cmd == process_cmds_dict(args.sdim)[estimator]
        c1 == IF args.ir_throttled /\ estimator \in can_use_throttled_ir
              THEN cmd \o " --ir_throttled" ELSE cmd
        c2 == IF args.imu_throttled /\ estimator \in can_use_throttled_imu
              THEN c1 \o " --imu_throttled" ELSE c1
        c3 == IF /\ args.optical_flow_throttled
                 /\ estimator \in can_use_throttled_optical_flow
              THEN c2 \o " --optical_flow_throttled" ELSE c2
        c4 == IF /\ args.camera_pose_throttled
                 /\ estimator \in can_use_throttled_camera_pose
              THEN c3 \o " --camera_pose_throttled" ELSE c3
    IN  c4

\* C7: for every estimator and every combination of the four requested
\* throttle flags, the launch command of the primary estimator carries exactly
\* the flags that are requested and supported, in the order ir, imu,
\* optical-flow, camera-pose.
C7_FlagsRequestedAndSupported ==
    Len(process_cmds) >= 1
    => process_cmds[1] = requested_and_supported(primary_estimator)

\* C8: when a terminate() call of the shutdown loop fails, the failure is not
\* propagated and every tracked process still gets its terminate() call: a
\* shutdown that started ends without an exception and with every process
\* attempted.
C8_TerminateFailureNotPropagated ==
    (pc = "done" /\ se_bound)
    => /\ exc = "none"
       /\ \A i \in 1..Len(processes) : attempts(i) >= 1

\* C9: launching is best-effort: when the Popen of one of N commands has
\* raised, the other commands are still launched, so main ends with N - 1
\* tracked processes.
C9_BestEffortLaunch ==
    (launch_failed # 0 /\ pc = "done")
    => Len(processes) = Len(process_cmds) - 1

\* C10: over the lifetime of main every tracked process receives exactly one
\* terminate() call.
C10_ExactlyOneTerminateEach ==
    pc = "done" => \A i \in 1..Len(processes) : attempts(i) = 1

\* C11: with the handlers on their own threads, the x, y, vel_x, vel_y of every
\* record published under primary ukf2d come from one EMA message, or are all
\* the zero default: never a mix.
C11_FusedFieldsFromOneEmaMessage ==
    primary_estimator = "ukf2d"
    => \A i \in 1..Len(published) :
          \E src \in MsgsOn(ema_topic) \cup {State} :
             /\ published[i].x = src.x
             /\ published[i].y = src.y
             /\ published[i].vel_x = src.vel_x
             /\ published[i].vel_y = src.vel_y

\* C12: once setup has registered the subscriptions, they are a function of
\* the primary alone, whatever the others list: ukf2d has exactly its own topic
\* with state_callback and the EMA topic with ema_helper_callback; ema, ukf7d
\* and simulator have exactly their own topic with state_callback.
C12_TopologyByPrimaryAlone ==
    process_cmds # <<>>
    => /\ primary_estimator = "ukf2d"
          => /\ Cardinality(subscribers) = 2
             /\ <<ukf_topics[2], "state_callback">> \in subscribers
             /\ <<ema_topic, "ema_helper_callback">> \in subscribers
       /\ primary_estimator # "ukf2d"
          => /\ subscribers = {<<primary_topic, "state_callback">>}
             /\ \A sub \in subscribers : sub[2] # "ema_helper_callback"

\* C12 witness: primary ukf7d spinning next to EMA and ukf2d processes, with
\* its single subscription and nothing else wired.
C12_Witness ==
    /\ primary_estimator = "ukf7d"
    /\ other_estimators = <<"ema", "ukf2d">>
    /\ pc = "spin"
    /\ Len(processes) = 3
    /\ subscribers = {<<ukf_topics[7], "state_callback">>}

\* C13: when the primary id or one of the others is outside the enumeration,
\* no process is ever started: the tracked list stays empty and no Popen
\* handle exists.
C13_UnknownIdLaunchesNothing ==
    ~ids_known => (processes = <<>> /\ terminate_calls = <<>>)

\* C13 witness: a known primary with an unknown id in second place among the
\* others; the constructor has raised KeyError after wiring the subscription.
C13_Witness ==
    /\ primary_estimator = "ukf7d"
    /\ other_estimators = <<"ema", unknown_id>>
    /\ pc = "except"
    /\ exc = "KeyError"
    /\ subscribers # {}
    /\ processes = <<>>

\* C14: for every primary, ukf2d included, each published record has z, vel_z,
\* orientation, angular velocity and both covariance blocks of the primary
\* message that triggered it.
C14_PrimaryOwnsVerticalAndCovariance ==
    \A i \in 1..Len(published) :
       /\ i <= Len(handled)
       /\ handled[i] \in MsgsOn(primary_topic)
       /\ published[i].z = handled[i].z
       /\ published[i].vel_z = handled[i].vel_z
       /\ published[i].orientation = handled[i].orientation
       /\ published[i].vel_angular = handled[i].vel_angular
       /\ published[i].pose_covariance = handled[i].pose_covariance
       /\ published[i].twist_covariance = handled[i].twist_covariance

\* C14 witness: under ukf2d a record fused after an EMA message carries the
\* EMA's x and the primary message's covariance.
C14_Witness ==
    /\ primary_estimator = "ukf2d"
    /\ Len(published) >= 1
    /\ published[1].x = Msg(ema_topic, 2).x
    /\ published[1].pose_covariance = Msg(ukf_topics[2], 1).pose_covariance
    /\ published[1].twist_covariance = Msg(ukf_topics[2], 1).twist_covariance

\* C15: a step of ema_helper_callback changes nothing but x, y, vel_x, vel_y of
\* the cache: the other cache fields, the output record, the tracked
\* processes and the records published stay as they are, so it publishes
\* nothing.
C15_EmaHelperTouchesOnlyCacheXY ==
    [][ema_helper_callback
       => /\ state_msg' = state_msg
          /\ processes' = processes
          /\ terminate_calls' = terminate_calls
          /\ published' = published
          /\ [ema_state_msg'[1] EXCEPT !.x = 0, !.y = 0,
                                       !.vel_x = 0, !.vel_y = 0]
                = [ema_state_msg[1] EXCEPT !.x = 0, !.y = 0,
                                           !.vel_x = 0, !.vel_y = 0]]_vars

\* C15 witness: an EMA message handled after a record was published: the
\* cache holds its x, the cache's z and the record published before are as
\* they were.
C15_Witness ==
    /\ primary_estimator = "ukf2d"
    /\ last_ema = <<Msg(ema_topic, 1)>>
    /\ ema_state_msg[1].x = Msg(ema_topic, 1).x
    /\ ema_state_msg[1].z = 0
    /\ Len(published) = 1
    /\ state_msg = published[1]
    /\ state_msg.x = 0

\* C16: with primary ukf2d, whatever the others list, the EMA command is the
\* second command, right after the primary's; once the launch loop has run to
\* its end the EMA process is the second tracked process, and it is there
\* whenever the node spins.
C16_Ukf2dLaunchesEma ==
    (primary_estimator = "ukf2d" /\ process_cmds # <<>>)
    => /\ Len(process_cmds) >= 2
       /\ process_cmds[2] = process_cmds_dict(args.sdim)["ema"]
       /\ (p_idx > Len(process_cmds) \/ pc = "spin")
          => /\ Len(processes) >= 2
             /\ processes[2] = <<process_cmds_dict(args.sdim)["ema"], 2>>

\* C16 witness: ukf2d spinning with ukf7d among the others: three processes,
\* the EMA second.
C16_Witness ==
    /\ primary_estimator = "ukf2d"
    /\ other_estimators = <<"ukf7d">>
    /\ pc = "spin"
    /\ Len(processes) = 3
    /\ processes[2][1] = "python StateEstimators/state_estimator_ema.py"

\* C17: whenever a handler that accesses the cache is subscribed
\* (ema_helper_callback, or state_callback with primary ukf2d), the cache is
\* allocated; and no callback has ever raised for want of it.
C17_CacheAllocatedForItsHandlers ==
    /\ ~callback_error
    /\ \A sub \in subscribers :
          (\/ sub[2] = "ema_helper_callback"
           \/ (sub[2] = "state_callback" /\ primary_estimator = "ukf2d"))
          => ema_state_msg # <<>>
    /\ (primary_estimator # "ukf2d" /\ ids_known) => ema_state_msg = <<>>

\* C17 witness: under ukf2d both handlers have run on the allocated cache;
\* the fusion came first and read the zeros.
C17_Witness ==
    /\ primary_estimator = "ukf2d"
    /\ ema_state_msg # <<>>
    /\ last_ema # <<>>
    /\ Len(published) = 1
    /\ published[1].vel_x = 0
    /\ ema_state_msg[1].vel_x = last_ema[1].vel_x
    /\ ~callback_error

\* C18: a process is launched only during setup, before the node spins and
\* before any message is handled, and each command at most once; a
\* terminate() call is made only in the finally loop, after spin has returned;
\* the handlers neither launch nor terminate, and while the node spins no
\* process has been sent a terminate().
C18_LaunchInSetupTerminateAfterSpin ==
    [][/\ Len(processes') > Len(processes)
          => /\ pc = "launch" /\ pc' = "launch"
             /\ ~se_bound
             /\ handled = <<>> /\ last_ema = <<>>
             /\ Len(processes') <= Len(process_cmds)
       /\ (\E i \in DOMAIN terminate_calls :
              terminate_calls'[i] > terminate_calls[i])
          => (pc = "terminate" /\ se_bound)
       /\ (state_callback \/ ema_helper_callback)
          => (processes' = processes /\ terminate_calls' = terminate_calls)
       /\ pc' = "spin"
          => \A i \in DOMAIN terminate_calls' : terminate_calls'[i] = 0]_vars

\* C18 witness: main is over after a run that handled messages: the processes
\* were launched before the first message and terminated after the last.
C18_Witness ==
    /\ pc = "done"
    /\ Len(processes) = 2
    /\ Len(handled) = 2
    /\ \A i \in 1..Len(processes) : attempts(i) = 1

====
